---- MODULE Spec2Model ----
(***************************************************************************)
(* The ClawBot Telegram worker: the fetch handler of src/index.js (kept in *)
(* src/README.md, lines 125-487), the model gateway of src/src/ai.js and   *)
(* the system skill (src/unnamed/part_000).                                *)
(*                                                                         *)
(* A JavaScript string is a sequence of tokens, string concatenation is    *)
(* \o, the empty string is << >>.  Every await of the handler on an        *)
(* external collaborator (key-value store, completion backend, tool        *)
(* handler, Telegram) is one step of a handler process; the collaborator's *)
(* answer (a value, an error status, an exception) is chosen with \E.      *)
(***************************************************************************)
EXTENDS Integers, Sequences, FiniteSets, TLC

VARIABLES
    kv,         \* env.CHAT_HISTORY: the value stored under chat:<chatId>
    hs,         \* per handler process: the locals of one run of fetch
    pending,    \* inbound updates still to arrive, per handler and chat
    toolBudget, \* tool calls the completion backend may still request
    world,      \* which users and backend the worker faces (never changes)
    streak,     \* per chat: completed exchanges handled in a row
    faulted     \* per chat: the current streak saw a store failure or expiry

vars == <<kv, hs, pending, toolBudget, world, streak, faulted>>

(***************************** bounds ************************************)
MaxRequests == 2       \* inbound updates of a behaviour of Spec
MaxCalls == 2          \* tool calls listed by one model response
LiveRequests == 1      \* inbound updates of a behaviour of LiveSpec
LongRequests == 12     \* inbound updates of a behaviour of LongSpec
LongToolCalls == 1     \* tool calls requested in a behaviour of LongSpec
EvictRequests == 1     \* inbound updates of a behaviour of EvictSpec
SharedRequests == 1    \* inbound updates per handler and chat in SharedSpec
SharedToolCalls == 1   \* tool calls requested in a behaviour of SharedSpec

(************************* program constants *****************************)
MAX_HISTORY == 10
MAX_TURNS == 3

Handlers == {"h1", "h2"}
Chats == {"c1", "c2"}

(* Texts of inbound messages: the four commands of the command branch and  *)
(* two ordinary messages.  "" is a message without text and caption.       *)
Commands == {<<"/start">>, <<"/clear">>, <<"/test_cron">>, <<"/help">>}
UserTexts == {<<"hi">>, <<"list my repos">>}
FileKinds == {"none", "voice", "image", "document"}

(* The replies the handler composes. *)
HelpText == <<"Clawbot Capabilities ... /help - Show this menu">>
CronReply == <<"Triggered Morning Briefing manually.">>
ClearedReply == <<"Memory cleared.">>
Working == <<"Working on it...">>
Fallback == <<"I got confused and stopped thinking.">>
CrashReply == <<"I crashed! Something went wrong.">>

(* JavaScript null where a string is expected (choice.content of a         *)
(* response that only lists tool calls).                                   *)
Null == <<"<null>">>
Falsy(s) == s = << >> \/ s = Null

(***************************** the store *********************************)
Absent == [present |-> FALSE, value |-> << >>]
Stored(h) == [present |-> TRUE, value |-> h]

Min(a, b) == IF a < b THEN a ELSE b
Max(a, b) == IF a < b THEN b ELSE a

(* Mutant: a save adds the last two entries of the handler's history to    *)
(* what the store holds instead of replacing it.                           *)
SaveChatHistory_Merge(c, history, putThrows) ==
    IF putThrows THEN kv
    ELSE [kv EXCEPT ![c] =
            Stored(kv[c].value \o SubSeq(history, Max(1, Len(history) - 1),
                                         Len(history)))]

(* Mutant: the history is stored untrimmed. *)
SliceLast_NoTrim(s, n) == s

(* Mutant: the trim keeps the first n entries. *)
SliceLast_KeepFirst(s, n) == SubSeq(s, 1, Min(n, Len(s)))

(* Array.prototype.slice(-n) *)
SliceLast(s, n) == SubSeq(s, Max(1, Len(s) - n + 1), Len(s))

(* Mutant: a read that throws still yields what is stored. *)
GetChatHistory_IgnoresFailure(c, readThrows) ==
    IF kv[c].present THEN kv[c].value ELSE << >>

(* getChatHistory: data || [], and [] when the read throws. *)
GetChatHistory(c, readThrows) ==
    IF readThrows THEN << >>
    ELSE IF kv[c].present THEN kv[c].value ELSE << >>

(* saveChatHistory: put the last MAX_HISTORY entries; a throwing put is    *)
(* logged and swallowed.  The value of the store afterwards.               *)
SaveChatHistory(c, history, putThrows) ==
    IF putThrows THEN kv
    ELSE [kv EXCEPT ![c] = Stored(SliceLast(history, MAX_HISTORY))]


(************************ the skill registry *****************************)
(* SKILLS, in the order of the array. *)
Skills == <<"github", "browser", "system", "self_improvement", "job_search">>

(* The names of the tools a skill declares, in the order of its tools     *)
(* array.                                                                  *)
SkillTools(skill) ==
    CASE skill = "github" ->
            <<"get_repos", "get_issues", "set_repo", "get_repo_readme",
              "create_issue", "close_issue", "list_files">>
      [] skill = "browser" -> <<"browse_page">>
      [] skill = "system" -> <<"clear_memory", "get_help">>
      [] skill = "self_improvement" -> <<"read_file", "modify_file">>
      [] OTHER -> <<"read_cv", "search_jobs", "save_job_preferences">>

(* Mutant: the browser skill registers no handler. *)
SkillHandlers_NoBrowser(skill) ==
    CASE skill = "github" ->
            {"get_repos", "get_issues", "set_repo", "get_repo_readme",
             "create_issue", "close_issue", "list_files"}
      [] skill = "browser" -> {}
      [] skill = "system" -> {"clear_memory", "get_help"}
      [] skill = "self_improvement" -> {"read_file", "modify_file"}
      [] OTHER -> {"read_cv", "search_jobs", "save_job_preferences"}

(* The keys of the handlers object of a skill. *)
SkillHandlers(skill) ==
    CASE skill = "github" ->
            {"get_repos", "get_issues", "set_repo", "get_repo_readme",
             "create_issue", "close_issue", "list_files"}
      [] skill = "browser" -> {"browse_page"}
      [] skill = "system" -> {"clear_memory", "get_help"}
      [] skill = "self_improvement" -> {"read_file", "modify_file"}
      [] OTHER -> {"read_cv", "search_jobs", "save_job_preferences"}

(* skills.flatMap(s => s.tools), by name. *)
RECURSIVE FlatMapTools(_)
FlatMapTools(skills) ==
    IF skills = << >> THEN << >>
    ELSE SkillTools(Head(skills)) \o FlatMapTools(Tail(skills))

(* TOOLS = SKILLS.flatMap(s => s.tools) *)
TOOLS == FlatMapTools(Skills)

(* The keys of HANDLERS = Object.assign({}, ...SKILLS.map(s => s.handlers)). *)
HandlerNames ==
    UNION {SkillHandlers(Skills[i]) : i \in 1..Len(Skills)}

(* The skill whose handler HANDLERS[fnName] is: Object.assign lets the    *)
(* last skill with that key win.                                           *)
HandlerOwner(fnName) ==
    LET owners == {i \in 1..Len(Skills) : fnName \in SkillHandlers(Skills[i])}
    IN  Skills[CHOOSE i \in owners : \A j \in owners : j <= i]

(* HANDLERS[fnName] is truthy *)
HasHandler(fnName) == fnName \in HandlerNames

(* What the completion backend may put in a tool call: a registered tool   *)
(* that reaches a remote service, the tool that deletes the stored         *)
(* history, a name nobody registered; arguments that are JSON or not.      *)
CallNames == {"get_repos", "clear_memory", "no_such_tool"}
ArgTexts == {"{}", "{oops"}
ToolCalls == [name : CallNames, arguments : ArgTexts]

(* JSON.parse(toolCall.function.arguments) returns; it throws otherwise. *)
JsonParses(a) == a = "{}"

(* What a handler returns when it returns. *)
HandlerText(fnName) ==
    IF fnName = "clear_memory"
    THEN <<"Memory cleared! I have forgotten our previous conversation.">>
    ELSE <<"result of ", fnName>>

ErrMessage == <<"request failed">>   \* e.message of a thrown Error

ExecutionError(fnName, msg) == <<"Error executing ", fnName, ": ">> \o msg
NotFound(fnName) == <<"Error: Tool ", fnName, " not found.">>

(* turnResults += `\n- Tool ${fnName} result: ${toolResult}` *)
ResultLine(fnName, toolResult) ==
    <<"\n- Tool ", fnName, " result: ">> \o toolResult

(* Mutant: the prompt of the next round carries the results only. *)
NextPrompt_NoRequest(text, turnResults) ==
    <<"[System] Tools executed.\n\nResults:">> \o turnResults
        \o <<"\n\nBased on these results, proceed with the next step or answer the user.">>

(* The prompt of the next round. *)
NextPrompt(text, turnResults) ==
    <<"[System] Tools executed.\nOriginal Request: \"">> \o text
        \o <<"\"\n\nResults:">> \o turnResults
        \o <<"\n\nBased on these results, proceed with the next step or answer the user.">>

(************************** the model gateway ****************************)
Answer == <<"Here is what I found.">>
BrainHurts == <<"My brain hurts. OpenAI Error: ", "Rate limit reached">>
SystemError == <<"System Error: ">> \o ErrMessage
NothingToSay == <<"I couldn't think of anything to say.">>

RECURSIVE SeqsUpTo(_, _)
SeqsUpTo(S, n) ==
    IF n = 0 THEN {<< >>}
    ELSE LET shorter == SeqsUpTo(S, n - 1)
         IN  shorter \cup {Append(q, x) : q \in shorter, x \in S}

(* What the call to the completion backend can come to: fetch or           *)
(* response.json() throws, the status is not ok, the body has no choice,   *)
(* the message is a text / an empty text / null, or the message lists tool *)
(* calls (an empty list included).                                         *)
BackendOutcomes(maxCalls) ==
    [kind : {"network_error", "http_error", "no_choice"},
     content : {Null}, tool_calls : {<< >>}]
    \cup [kind : {"text"}, content : {Answer, << >>, Null}, tool_calls : {<< >>}]
    \cup [kind : {"tool_calls"}, content : {Null},
          tool_calls : SeqsUpTo(ToolCalls, maxCalls)]

(* Mutant: the backend call is not inside a try, so a network exception    *)
(* leaves generateAIResponse.                                              *)
GenerateAIResponse_Unguarded(context, fileUrlOk, backend) ==
    IF (context.file = "image" /\ ~fileUrlOk) \/ backend.kind = "network_error"
    THEN [threw |-> TRUE, content |-> Null, has_calls |-> FALSE, tool_calls |-> << >>]
    ELSE CASE backend.kind = "http_error" ->
                [threw |-> FALSE, content |-> BrainHurts,
                 has_calls |-> FALSE, tool_calls |-> << >>]
           [] backend.kind = "no_choice" ->
                [threw |-> FALSE, content |-> NothingToSay,
                 has_calls |-> FALSE, tool_calls |-> << >>]
           [] backend.kind = "tool_calls" ->
                [threw |-> FALSE, content |-> backend.content,
                 has_calls |-> TRUE, tool_calls |-> backend.tool_calls]
           [] OTHER ->
                [threw |-> FALSE, content |-> backend.content,
                 has_calls |-> FALSE, tool_calls |-> << >>]

(* generateAIResponse.  threw: the exception of getTelegramFileUrl leaves  *)
(* the function (the image branch is outside its try).  has_calls is the   *)
(* truthiness of the tool_calls property of the returned object.  The      *)
(* voice branch only rewrites the parameter userText and catches its own   *)
(* failure, so it leaves no trace in the result.                           *)
GenerateAIResponse(context, fileUrlOk, backend) ==
    IF context.file = "image" /\ ~fileUrlOk
    THEN [threw |-> TRUE, content |-> Null, has_calls |-> FALSE, tool_calls |-> << >>]
    ELSE CASE backend.kind = "network_error" ->
                [threw |-> FALSE, content |-> SystemError,
                 has_calls |-> FALSE, tool_calls |-> << >>]
           [] backend.kind = "http_error" ->
                [threw |-> FALSE, content |-> BrainHurts,
                 has_calls |-> FALSE, tool_calls |-> << >>]
           [] backend.kind = "no_choice" ->
                [threw |-> FALSE, content |-> NothingToSay,
                 has_calls |-> FALSE, tool_calls |-> << >>]
           [] backend.kind = "tool_calls" ->
                [threw |-> FALSE, content |-> backend.content,
                 has_calls |-> TRUE, tool_calls |-> backend.tool_calls]
           [] OTHER ->
                [threw |-> FALSE, content |-> backend.content,
                 has_calls |-> FALSE, tool_calls |-> << >>]

(*************************** the environment *****************************)
(* "open": users send any text and attachment, the backend answers         *)
(* anything.  "plain": users send the text "hi" or /clear without          *)
(* attachment, the backend answers with the text Answer or with one tool   *)
(* call.  "shared": two users write at the same time, ordinary texts or    *)
(* /test_cron, the backend answers as in "plain".                          *)
WorldTexts(w) ==
    CASE w = "open" -> Commands \cup UserTexts
      [] w = "shared" -> UserTexts \cup {<<"/test_cron">>}
      [] OTHER -> {<<"hi">>, <<"/clear">>}

WorldFiles(w) == IF w = "open" THEN FileKinds ELSE {"none"}

WorldBackend(w) ==
    IF w = "open" THEN BackendOutcomes(MaxCalls)
    ELSE {b \in BackendOutcomes(1) :
            \/ b.kind = "text" /\ b.content = Answer
            \/ b.kind = "tool_calls" /\ Len(b.tool_calls) = 1}

(************************ the locals of fetch ****************************)
NoContext == [type |-> "general", file |-> "none", result |-> << >>]
FileContext(kind) == [type |-> "general", file |-> kind, result |-> << >>]
ToolResultContext(turnResults) ==
    [type |-> "tool_result", file |-> "none", result |-> turnResults]

(* A handler process that is not running fetch.  The fields from loaded on *)
(* are history variables of the run: the history as loaded, whether a      *)
(* store call of the run threw, the catalog handed to each consultation,   *)
(* what the backend did in the last consultation ("no_call": it was not    *)
(* reached) and the content generateAIResponse returned, whether           *)
(* the user/assistant pair was pushed, the sends to Telegram, how the      *)
(* previous run of fetch ended, the method of the request of the run, and  *)
(* whether the clear_memory handler has returned in the run.               *)
IdleState ==
    [pc |-> "idle", chatId |-> "none", text |-> << >>, history |-> << >>,
     replyText |-> << >>, context |-> NoContext, currentText |-> << >>,
     turn |-> 0, finalReply |-> << >>, calls |-> << >>, turnResults |-> << >>,
     loaded |-> << >>, storeFailed |-> FALSE, consults |-> << >>,
     lastRes |-> "none", lastContent |-> << >>, appended |-> FALSE, sends |-> << >>,
     response |-> "none", method |-> "none", cleared |-> FALSE]

UserMsg(text) == [role |-> "user", content |-> text]
AssistantMsg(text) == [role |-> "assistant", content |-> text]

(* Mutant: the loop test lets one more turn through. *)
LoopCondition_OneMore(turn) == turn < MAX_TURNS + 1

(* while (turn < MAX_TURNS) *)
LoopCondition(turn) == turn < MAX_TURNS

(* Mutant: the catalog is offered on every turn. *)
AvailableTools_Always(turn) == "TOOLS"

(* availableTools = (turn < MAX_TURNS) ? TOOLS : null *)
AvailableTools(turn) == IF turn < MAX_TURNS THEN "TOOLS" ELSE "null"

(* Control leaves the try block: turn, currentText, finalReply, the tool   *)
(* calls and turnResults go out of scope, and context is not read again.   *)
LeaveLoop(s) ==
    [s EXCEPT !.turn = 0, !.currentText = << >>, !.finalReply = << >>,
              !.calls = << >>, !.turnResults = << >>, !.context = NoContext,
              !.pc = "save1"]

(* Mutant: the text branch has no break, the loop goes on while turns are  *)
(* left.                                                                   *)
Finish_NoBreak(s) ==
    LET reply == IF Falsy(s.finalReply) THEN Fallback ELSE s.finalReply
    IN  IF LoopCondition(s.turn) THEN [s EXCEPT !.pc = "consult"]
        ELSE LeaveLoop([s EXCEPT
                !.replyText = reply,
                !.history = s.history \o <<UserMsg(s.text), AssistantMsg(reply)>>,
                !.appended = TRUE])

(* Mutant: the prompt of the last round is pushed as the user message. *)
Finish_StoresPrompt(s) ==
    LET reply == IF Falsy(s.finalReply) THEN Fallback ELSE s.finalReply
    IN  LeaveLoop([s EXCEPT
            !.replyText = reply,
            !.history = s.history \o <<UserMsg(s.currentText), AssistantMsg(reply)>>,
            !.appended = TRUE])

(* Mutant: only the assistant entry is pushed. *)
Finish_AssistantOnly(s) ==
    LET reply == IF Falsy(s.finalReply) THEN Fallback ELSE s.finalReply
    IN  LeaveLoop([s EXCEPT
            !.replyText = reply,
            !.history = s.history \o <<AssistantMsg(reply)>>,
            !.appended = TRUE])

(* Mutant: the reply is the text of the last response, without fallback. *)
Finish_NoFallback(s) ==
    LeaveLoop([s EXCEPT
        !.replyText = s.finalReply,
        !.history = s.history \o <<UserMsg(s.text), AssistantMsg(s.finalReply)>>,
        !.appended = TRUE])

(* After the loop: the reply and the two pushes. *)
Finish(s) ==
    LET reply == IF Falsy(s.finalReply) THEN Fallback ELSE s.finalReply
    IN  LeaveLoop([s EXCEPT
            !.replyText = reply,
            !.history = s.history \o <<UserMsg(s.text), AssistantMsg(reply)>>,
            !.appended = TRUE])

(* Mutant: the catch records the failed exchange in the history. *)
Crash_Records(s) ==
    LeaveLoop([s EXCEPT
        !.replyText = CrashReply,
        !.history = s.history \o <<UserMsg(s.text), AssistantMsg(CrashReply)>>,
        !.appended = TRUE])

(* The catch of the AI branch. *)
Crash(s) == LeaveLoop([s EXCEPT !.replyText = CrashReply])

(* The end of the tool round: the context and prompt of the next turn,     *)
(* then the loop test.                                                     *)
EndRound(s) ==
    LET s1 == [s EXCEPT !.context = ToolResultContext(s.turnResults),
                        !.currentText = NextPrompt(s.text, s.turnResults)]
    IN  IF LoopCondition(s1.turn) THEN [s1 EXCEPT !.pc = "consult"]
        ELSE Finish(s1)

(****************************** actions **********************************)
Unlimited == [limited |-> FALSE, left |-> 0]
Limited(n) == [limited |-> TRUE, left |-> n]

(* The reply of the command branch. *)
CommandReply(text) ==
    IF text = <<"/start">> \/ text = <<"/help">> THEN HelpText
    ELSE IF text = <<"/test_cron">> THEN CronReply
    ELSE ClearedReply

(* Mutant: /start and /clear are not commands, they go to the model. *)
IsCommand_NoClear(text) == text = <<"/test_cron">> \/ text = <<"/help">>

(* The branch of line 221: these four texts empty the in-memory history. *)
IsCommand(text) ==
    text = <<"/start">> \/ text = <<"/clear">> \/ text = <<"/test_cron">>
        \/ text = <<"/help">>

Methods == {"GET", "POST"}
Bodies == {"bad_json", "no_message", "message"}

(* Mutant: the method of the request is not looked at. *)
EarlyResponse_NoMethodCheck(method, body) ==
    CASE body = "bad_json" -> "Bad Request"
      [] body = "no_message" -> "No message"
      [] OTHER -> "none"

(* The three early returns of fetch; "none": the handling goes on. *)
EarlyResponse(method, body) ==
    IF method # "POST" THEN "OK"
    ELSE CASE body = "bad_json" -> "Bad Request"
           [] body = "no_message" -> "No message"
           [] OTHER -> "none"

(* fetch, from its first line to the first consultation or, for a command, *)
(* to the save.  The request has a method and a body: one that is no JSON, *)
(* an update without message, or a message of chat c.  For                 *)
(* /test_cron the handler runs scheduled(), whose tool round can delete    *)
(* the stored history of the chats in cronDeleted (clear_memory); its      *)
(* failures are caught inside scheduled.                                   *)
Receive(h, c) ==
    /\ hs[h].pc = "idle"
    /\ pending[h][c] > 0
    /\ pending' = [pending EXCEPT ![h][c] = @ - 1]
    /\ \E method \in Methods, body \in Bodies :
          IF EarlyResponse(method, body) # "none"
          THEN /\ hs' = [hs EXCEPT ![h] =
                    [IdleState EXCEPT !.response = EarlyResponse(method, body),
                                      !.method = method]]
               /\ UNCHANGED <<kv, streak, faulted>>
          ELSE \E text \in WorldTexts(world), file \in WorldFiles(world),
                  readThrows \in BOOLEAN, cronDeleted \in SUBSET Chats :
                 LET loaded == GetChatHistory(c, readThrows)
                     s0 == [IdleState EXCEPT
                              !.chatId = c, !.text = text, !.method = method,
                              !.context = IF file = "none" THEN NoContext
                                          ELSE FileContext(file),
                              !.history = loaded, !.loaded = loaded,
                              !.storeFailed = readThrows]
                 IN  IF IsCommand(text)
                     THEN /\ text # <<"/test_cron">> => cronDeleted = {}
                          /\ hs' = [hs EXCEPT ![h] =
                                [s0 EXCEPT !.history = << >>,
                                           !.replyText = CommandReply(text),
                                           !.pc = "save1"]]
                          /\ kv' = [d \in Chats |->
                                IF d \in cronDeleted THEN Absent ELSE kv[d]]
                          /\ faulted' = [d \in Chats |->
                                faulted[d] \/ d \in cronDeleted]
                          /\ UNCHANGED streak
                     ELSE /\ cronDeleted = {}
                          /\ hs' = [hs EXCEPT ![h] =
                                [s0 EXCEPT !.currentText = text, !.turn = 0,
                                           !.finalReply = << >>,
                                           !.pc = "consult"]]
                          /\ UNCHANGED <<kv, streak, faulted>>
    /\ UNCHANGED <<toolBudget, world>>

(* One turn of the loop up to the branch on aiRes.tool_calls: turn++, the  *)
(* catalog of the turn, generateAIResponse, then either the start of the   *)
(* tool round or the break and what follows the loop.                      *)
Consult(h) ==
    LET s == hs[h] IN
    /\ s.pc = "consult"
    /\ LoopCondition(s.turn)
    /\ \E fileUrlOk \in BOOLEAN, backend \in WorldBackend(world) :
          LET turn == s.turn + 1
              tools == AvailableTools(turn)
              aiRes == GenerateAIResponse(s.context, fileUrlOk, backend)
              s1 == [s EXCEPT !.turn = turn,
                              !.consults = Append(s.consults, tools),
                              !.lastRes =
                                  IF s.context.file = "image" /\ ~fileUrlOk
                                  THEN "no_call" ELSE backend.kind,
                              !.lastContent = aiRes.content]
          IN  /\ (s.context.file # "image") => fileUrlOk
              /\ toolBudget.limited => Len(backend.tool_calls) <= toolBudget.left
              /\ toolBudget' =
                    IF toolBudget.limited /\ ~aiRes.threw
                    THEN Limited(toolBudget.left - Len(backend.tool_calls))
                    ELSE toolBudget
              /\ hs' = [hs EXCEPT ![h] =
                    IF aiRes.threw THEN Crash(s1)
                    ELSE IF aiRes.has_calls
                    THEN LET s2 == [s1 EXCEPT !.replyText = Working,
                                              !.turnResults = << >>,
                                              !.calls = aiRes.tool_calls]
                         IN  IF aiRes.tool_calls = << >> THEN EndRound(s2)
                             ELSE [s2 EXCEPT !.pc = "tools"]
                    ELSE Finish([s1 EXCEPT !.finalReply = aiRes.content])]
    /\ UNCHANGED <<kv, pending, world, streak, faulted>>

(* Mutant: the iteration takes the last tool call of the list. *)
NextCall_Last(calls) == calls[Len(calls)]

(* for (const toolCall of aiRes.tool_calls): the tool call of the next     *)
(* iteration, calls being the ones not yet run.                            *)
NextCall(calls) == Head(calls)

(* One iteration of for (const toolCall of aiRes.tool_calls): the parse of *)
(* the arguments, the lookup, the call of the handler (which returns or    *)
(* throws; clear_memory deletes the stored history of the chat before it   *)
(* returns), the line added to turnResults and, after the last tool call,  *)
(* the end of the round.                                                   *)
ExecTool(h) ==
    LET s == hs[h]
        toolCall == NextCall(s.calls)
        fnName == toolCall.name
    IN
    /\ s.pc = "tools"
    /\ s.calls # << >>
    /\ IF ~JsonParses(toolCall.arguments)
       THEN /\ hs' = [hs EXCEPT ![h] = Crash(s)]
            /\ UNCHANGED kv
       ELSE \E handlerThrows \in BOOLEAN :
              LET toolResult ==
                      IF HasHandler(fnName)
                      THEN IF handlerThrows
                           THEN ExecutionError(fnName, ErrMessage)
                           ELSE HandlerText(fnName)
                      ELSE NotFound(fnName)
                  s1 == [s EXCEPT
                           !.turnResults = s.turnResults
                                             \o ResultLine(fnName, toolResult),
                           !.calls = Tail(s.calls),
                           !.cleared = s.cleared
                                \/ (fnName = "clear_memory" /\ ~handlerThrows)]
              IN  /\ ~HasHandler(fnName) => ~handlerThrows
                  /\ hs' = [hs EXCEPT ![h] =
                        IF s1.calls = << >> THEN EndRound(s1) ELSE s1]
                  /\ kv' = IF fnName = "clear_memory" /\ ~handlerThrows
                           THEN [kv EXCEPT ![s.chatId] = Absent]
                           ELSE kv
    /\ UNCHANGED <<pending, toolBudget, world, streak, faulted>>

(* The first saveChatHistory (line 334). *)
Save1(h) ==
    LET s == hs[h] IN
    /\ s.pc = "save1"
    /\ \E putThrows \in BOOLEAN :
          /\ kv' = SaveChatHistory(s.chatId, s.history, putThrows)
          /\ hs' = [hs EXCEPT ![h] =
                [s EXCEPT !.pc = "save2",
                          !.storeFailed = s.storeFailed \/ putThrows]]
    /\ UNCHANGED <<pending, toolBudget, world, streak, faulted>>

(* The second saveChatHistory (line 336).  With it the exchange is stored: *)
(* a completed exchange lengthens the streak of the chat, a command or a   *)
(* crashed exchange ends it.                                               *)
Save2(h) ==
    LET s == hs[h]
        c == s.chatId
    IN
    /\ s.pc = "save2"
    /\ \E putThrows \in BOOLEAN :
          /\ kv' = SaveChatHistory(c, s.history, putThrows)
          /\ hs' = [hs EXCEPT ![h] =
                [s EXCEPT !.pc = "send",
                          !.storeFailed = s.storeFailed \/ putThrows]]
          /\ IF s.appended
             THEN /\ streak' = [streak EXCEPT ![c] = Min(@ + 1, MAX_HISTORY + 1)]
                  /\ faulted' = [faulted EXCEPT ![c] =
                        (streak[c] > 0 /\ @) \/ s.storeFailed \/ putThrows]
             ELSE /\ streak' = [streak EXCEPT ![c] = 0]
                  /\ faulted' = [faulted EXCEPT ![c] = FALSE]
    /\ UNCHANGED <<pending, toolBudget, world>>

(* What the handler keeps when fetch returns or throws: how it ended and   *)
(* the sends it made.                                                      *)
Ended(response, sends) ==
    [IdleState EXCEPT !.response = response, !.method = "POST", !.sends = sends]

(* Mutant: every refusal is retried. *)
NeedsRetry_AnyError(result) == result \in {"error_400", "error_other"}

(* !responseData.ok with responseData.error_code === 400 *)
NeedsRetry(result) == result = "error_400"

(* The send to Telegram with parse_mode Markdown and the branch on its     *)
(* result: ok, refused with error_code 400, refused with another code, or  *)
(* the fetch itself throws, which leaves the handler.                      *)
Send(h) ==
    LET s == hs[h] IN
    /\ s.pc = "send"
    /\ \E result \in {"ok", "error_400", "error_other", "throws"} :
          LET sent == Append(s.sends,
                        [chat_id |-> s.chatId, text |-> s.replyText,
                         parse_mode |-> "Markdown", result |-> result])
          IN  hs' = [hs EXCEPT ![h] =
                    CASE result = "throws" -> Ended("threw", sent)
                      [] NeedsRetry(result) -> [s EXCEPT !.pc = "retry", !.sends = sent]
                      [] OTHER -> Ended("OK", sent)]
    /\ UNCHANGED <<kv, pending, toolBudget, world, streak, faulted>>

(* The second send: the same payload with parse_mode deleted; its result   *)
(* is only logged.                                                         *)
Retry(h) ==
    LET s == hs[h] IN
    /\ s.pc = "retry"
    /\ \E result \in {"ok", "error", "throws"} :
          LET sent == Append(s.sends,
                        [s.sends[1] EXCEPT !.parse_mode = "none",
                                           !.result = result])
          IN  hs' = [hs EXCEPT ![h] =
                    IF result = "throws" THEN Ended("threw", sent)
                    ELSE Ended("OK", sent)]
    /\ UNCHANGED <<kv, pending, toolBudget, world, streak, faulted>>

(* The store drops a value whose expirationTtl (7 days) has run out. *)
Expire(c) ==
    /\ kv[c].present
    /\ kv' = [kv EXCEPT ![c] = Absent]
    /\ faulted' = [faulted EXCEPT ![c] = TRUE]
    /\ UNCHANGED <<hs, pending, toolBudget, world, streak>>

(*************************** specifications ******************************)
InitStore ==
    /\ kv = [c \in Chats |-> Absent]
    /\ hs = [h \in Handlers |-> IdleState]
    /\ streak = [c \in Chats |-> 0]
    /\ faulted = [c \in Chats |-> FALSE]

Only(h0, c0, n) ==
    [h \in Handlers |-> [c \in Chats |-> IF h = h0 /\ c = c0 THEN n ELSE 0]]

(* One handler, one chat, MaxRequests updates of any kind, any answer of   *)
(* the backend, any tool rounds.                                           *)
Init ==
    /\ InitStore
    /\ pending = Only("h1", "c1", MaxRequests)
    /\ toolBudget = Unlimited
    /\ world = "open"

(* A long conversation in the plain world: one handler, one chat,          *)
(* LongRequests updates, LongToolCalls tool calls in all; the store and    *)
(* Telegram fail as in Spec.                                               *)
LongInit ==
    /\ InitStore
    /\ pending = Only("h1", "c1", LongRequests)
    /\ toolBudget = Limited(LongToolCalls)
    /\ world = "plain"

Step(h) ==
    \/ Consult(h)
    \/ ExecTool(h)
    \/ Save1(h)
    \/ Save2(h)
    \/ Send(h)
    \/ Retry(h)

Next ==
    \/ \E h \in Handlers, c \in Chats : Receive(h, c)
    \/ \E h \in Handlers : Step(h)
    \/ \E c \in Chats : Expire(c)

Spec == Init /\ [][Next]_vars

LongSpec == LongInit /\ [][Next]_vars

(* One update, handled to its end: the runtime resumes the handler when the *)
(* collaborator it awaits has answered, and every collaborator answers     *)
(* (returns or throws).                                                    *)
LiveInit ==
    /\ InitStore
    /\ pending = Only("h1", "c1", LiveRequests)
    /\ toolBudget = Unlimited
    /\ world = "open"

LiveSpec == LiveInit /\ [][Next]_vars /\ \A h \in Handlers : WF_vars(Step(h))

(* A chat that already has a history: four or five exchanges stored by      *)
(* earlier runs of the handler (texts and replies as the runs of Spec      *)
(* store them), then EvictRequests updates of any kind.                    *)
EarlierExchanges ==
    <<UserMsg(<<"hi">>), AssistantMsg(Answer),
      UserMsg(<<"list my repos">>), AssistantMsg(Fallback),
      UserMsg(<<"hi">>), AssistantMsg(BrainHurts),
      UserMsg(<<"list my repos">>), AssistantMsg(Answer),
      UserMsg(<<"hi">>), AssistantMsg(NothingToSay)>>

EvictInit ==
    /\ hs = [h \in Handlers |-> IdleState]
    /\ streak = [c \in Chats |-> 0]
    /\ faulted = [c \in Chats |-> FALSE]
    /\ \E n \in {MAX_HISTORY - 2, MAX_HISTORY} :
          kv = [c \in Chats |->
                  IF c = "c1" THEN Stored(SubSeq(EarlierExchanges, 1, n))
                  ELSE Absent]
    /\ pending = Only("h1", "c1", EvictRequests)
    /\ toolBudget = Unlimited
    /\ world = "open"

EvictSpec == EvictInit /\ [][Next]_vars

(* Two handler processes at the same time: h1 handles an update of chat c1 *)
(* while h2 handles updates of c1 and of c2, in the shared world.          *)
SharedInit ==
    /\ InitStore
    /\ pending = [h \in Handlers |-> [c \in Chats |->
                    IF h = "h1" /\ c = "c2" THEN 0 ELSE SharedRequests]]
    /\ toolBudget = Limited(SharedToolCalls)
    /\ world = "shared"

SharedSpec == SharedInit /\ [][Next]_vars

(******************************* claims **********************************)
InLoop(s) == s.pc \in {"consult", "tools"}

(* The state in which control has just left the try block of the AI branch. *)
LeftLoop(s) == s.pc = "save1" /\ ~IsCommand(s.text)

(* C1: when every model response of a message carried tool calls, the loop *)
(* has made exactly MAX_TURNS consultations when it is left and the reply  *)
(* is the fallback message.  (A response without tool calls breaks the     *)
(* loop, so the last response carried tool calls iff all of them did.)     *)
C1_TurnCeiling ==
    \A h \in Handlers :
        (LeftLoop(hs[h]) /\ hs[h].lastRes = "tool_calls")
            => /\ Len(hs[h].consults) = MAX_TURNS
               /\ hs[h].replyText = Fallback

(* C2: the MAX_TURNS-th consultation of a message is made without the tool *)
(* catalog and every earlier one with the catalog TOOLS.                   *)
C2_ToolWithholding ==
    \A h \in Handlers : \A i \in 1..Len(hs[h].consults) :
        /\ i = MAX_TURNS => hs[h].consults[i] = "null"
        /\ i < MAX_TURNS => hs[h].consults[i] = "TOOLS"

C2_Witness ==
    \E h \in Handlers :
        /\ Len(hs[h].consults) = MAX_TURNS
        /\ hs[h].lastRes = "tool_calls"

(* The handler is between the load of the history and the delivery. *)
BeforeSend(s) == s.pc \in {"consult", "tools", "save1", "save2"}

Outcomes(results) ==
    Cardinality({i \in 1..Len(results) : results[i] = "\n- Tool "})

(* A handler of the round has thrown. *)
RoundHasFailure(s) ==
    \E i \in 1..Len(s.turnResults) : s.turnResults[i] = "Error executing "

(* From s to t the round recorded the block `results`: it goes on with     *)
(* it, or it ended with it and the loop goes on or is left in order.       *)
Recorded(s, t, results) ==
    \/ t.pc = "tools" /\ t.turnResults = results
    \/ t.pc = "consult" /\ t.context.result = results
    \/ t.pc = "save1" /\ t.appended

(* C4: once a handler of a round has thrown, every further tool call of    *)
(* the round still adds its outcome and the round ends in the next         *)
(* consultation (or, on the last turn, in the reply), never in the abort   *)
(* of the request.                                                         *)
C4_FailureIsolated ==
    [][\A h \in Handlers :
          (hs[h].pc = "tools" /\ RoundHasFailure(hs[h]) /\ hs'[h] # hs[h])
            => \/ /\ hs'[h].pc = "tools"
                  /\ Outcomes(hs'[h].turnResults) = Outcomes(hs[h].turnResults) + 1
               \/ /\ hs'[h].pc = "consult"
                  /\ Outcomes(hs'[h].context.result)
                        = Outcomes(hs[h].turnResults) + 1
               \/ hs'[h].pc = "save1" /\ hs'[h].appended]_vars

(* C5: a tool call whose name has no handler adds the outcome              *)
(* 'Error: Tool <name> not found.' and the round goes on.                  *)
C5_UnknownTool ==
    [][\A h \in Handlers :
          (/\ hs[h].pc = "tools"
           /\ hs'[h] # hs[h]
           /\ ~HasHandler(Head(hs[h].calls).name))
            => LET fnName == Head(hs[h].calls).name
               IN  Recorded(hs[h], hs'[h],
                        hs[h].turnResults \o ResultLine(fnName, NotFound(fnName)))]_vars

(* C6: no step of the tool round ends in the catch of the fetch handler.   *)
C6_ToolsNeverRaise ==
    [][\A h \in Handlers :
          hs[h].pc = "tools" => hs'[h].replyText # CrashReply]_vars

(* Until the run ends, no further consultation and no tool round. *)
LoopStaysLeft(h) ==
    \/ hs'[h].lastRes = "none"
    \/ hs'[h].consults = hs[h].consults /\ ~InLoop(hs'[h])

(* The last consultation returned an object without tool_calls: a message  *)
(* of the backend without that property, or one of the gateway's apologies. *)
NoToolCalls(s) ==
    s.lastRes \in {"text", "http_error", "network_error", "no_choice"}

(* C7 as stated: after the first response without tool calls the loop is   *)
(* left for good and the reply is the text of that response.               *)
C7_ReplyIsResponseText ==
    /\ [](\A h \in Handlers :
            NoToolCalls(hs[h])
                => ~InLoop(hs[h]) /\ hs[h].replyText = hs[h].lastContent)
    /\ [][\A h \in Handlers : NoToolCalls(hs[h]) => LoopStaysLeft(h)]_vars

(* C7, amended: after the first response without a tool_calls list the     *)
(* loop is left for good, without further consultation or tool round, and  *)
(* the reply is the text of that response, or the fallback message when    *)
(* that text is empty or null.                                             *)
C7_TextEndsLoop ==
    /\ [](\A h \in Handlers :
            NoToolCalls(hs[h])
                => /\ ~InLoop(hs[h])
                   /\ hs[h].replyText = IF Falsy(hs[h].lastContent) THEN Fallback
                                        ELSE hs[h].lastContent)
    /\ [][\A h \in Handlers : NoToolCalls(hs[h]) => LoopStaysLeft(h)]_vars

C7_Witness ==
    \E h \in Handlers :
        /\ hs[h].pc = "send"
        /\ hs[h].lastRes = "text"
        /\ Len(hs[h].consults) = 1
        /\ hs[h].replyText = Answer

BackendFailed(s) == s.lastRes \in {"http_error", "network_error"}

(* C8: when the backend call fails (status not ok, or an exception), the   *)
(* loop is left on that turn with the apology text as the reply and no     *)
(* further consultation is made.                                           *)
C8_BackendFailureEndsLoop ==
    /\ [](\A h \in Handlers :
            BackendFailed(hs[h])
                => /\ ~InLoop(hs[h])
                   /\ hs[h].replyText = IF hs[h].lastRes = "http_error"
                                        THEN BrainHurts ELSE SystemError)
    /\ [][\A h \in Handlers : BackendFailed(hs[h]) => LoopStaysLeft(h)]_vars

C8_Witness ==
    \E h \in Handlers :
        /\ hs[h].pc = "save1"
        /\ hs[h].lastRes = "network_error"
        /\ Len(hs[h].consults) = 2
        /\ hs[h].replyText = SystemError

(* C9: a message that completes the AI branch leaves the in-memory history *)
(* as the loaded history followed by the user message with the inbound     *)
(* text and the assistant message with the reply; during the rounds the    *)
(* history is the loaded one.                                              *)
C9_NetPair ==
    \A h \in Handlers :
        /\ hs[h].appended
              => hs[h].history = hs[h].loaded
                    \o <<UserMsg(hs[h].text), AssistantMsg(hs[h].replyText)>>
        /\ InLoop(hs[h]) => hs[h].history = hs[h].loaded

C9_Witness ==
    \E h \in Handlers :
        /\ hs[h].pc = "send"
        /\ hs[h].appended
        /\ Len(hs[h].loaded) = 2
        /\ Len(hs[h].consults) = MAX_TURNS

Quiet == \A h \in Handlers : hs[h].pc = "idle"

Saved(h) == hs[h].pc \in {"save1", "save2"} /\ hs'[h] # hs[h]

(* The last k entries of s, in their order. *)
LastEntries(s, k) == [i \in 1..k |-> s[Len(s) - k + i]]

(* C11: the value a save writes is the last min(MAX_HISTORY, length)       *)
(* entries of the in-memory history of the handler, in their order: what   *)
(* is dropped is dropped from the front.  (A put that throws writes        *)
(* nothing.)                                                               *)
C11_FifoEviction ==
    [][\A h \in Handlers :
          Saved(h) =>
            LET c == hs[h].chatId
                history == hs[h].history
            IN  \/ kv'[c] = kv[c] /\ hs'[h].storeFailed
                \/ kv'[c] = Stored(LastEntries(history,
                                      Min(MAX_HISTORY, Len(history))))]_vars

C11_Witness ==
    \E h \in Handlers :
        /\ hs[h].pc = "send"
        /\ hs[h].appended
        /\ Len(hs[h].loaded) = MAX_HISTORY
        /\ kv[hs[h].chatId] =
              Stored(SubSeq(hs[h].loaded, 3, MAX_HISTORY)
                        \o <<UserMsg(hs[h].text), AssistantMsg(hs[h].replyText)>>)

(* The two reset commands. *)
ResetTexts == {<<"/start">>, <<"/clear">>}

(* The handler h has just run its last saveChatHistory call. *)
LastSave(h) == hs[h].pc = "save2" /\ hs'[h].pc = "send"

OwnPair(s) == <<UserMsg(s.text), AssistantMsg(s.replyText)>>

OwnView(s) ==
    IF s.appended THEN s.loaded \o OwnPair(s)
    ELSE IF IsCommand(s.text) THEN << >>
    ELSE s.loaded

(* C13: a save replaces the stored history of the chat by the saving       *)
(* handler's own view (its loaded history and its own pair, trimmed),      *)
(* without looking at what another handler has stored since the read: the  *)
(* last writer wins.  The witness is the lost update.                      *)
C13_LastWriterWins ==
    [][\A h \in Handlers :
          Saved(h) =>
            LET c == hs[h].chatId
            IN  \/ kv'[c] = kv[c] /\ hs'[h].storeFailed
                \/ kv'[c] = Stored(SliceLast(OwnView(hs[h]), MAX_HISTORY))]_vars

(* Both handlers have completed an exchange of the same chat and saved it, *)
(* no store call failed, and the stored history holds the pair of one of   *)
(* them only.                                                              *)
C13_Witness ==
    \E h, g \in Handlers :
        /\ h # g
        /\ hs[h].pc = "send" /\ hs[g].pc = "send"
        /\ hs[h].chatId = hs[g].chatId
        /\ hs[h].appended /\ hs[g].appended
        /\ ~hs[h].storeFailed /\ ~hs[g].storeFailed
        /\ hs[h].text # hs[g].text
        /\ kv[hs[h].chatId] = Stored(OwnPair(hs[g]))
        /\ \A i \in 1..Len(kv[hs[h].chatId].value) :
              kv[hs[h].chatId].value[i] # UserMsg(hs[h].text)

(* C14: the stored history of a chat changes only in a step of a handler   *)
(* of that chat (or when the store expires it), and the history a handler  *)
(* loads for the model is the stored history of its own chat (or empty     *)
(* when the read throws).                                                  *)
C14_CrossChatIsolation ==
    [][\A b \in Chats :
          /\ kv'[b] # kv[b] =>
                \/ hs' = hs /\ kv'[b] = Absent
                \/ \E h \in Handlers : hs'[h] # hs[h] /\ hs'[h].chatId = b
          /\ \A h \in Handlers :
                (hs[h].pc = "idle" /\ hs'[h].chatId = b)
                    => hs'[h].loaded \in {<< >>, kv[b].value}]_vars

(* C15: no failure leaves the fetch handler: every run that handles a      *)
(* message ends with the response OK.                                      *)
C15_AlwaysAcknowledged ==
    \A h \in Handlers : hs[h].response # "threw"

(* The handler is at one of its two sends to Telegram. *)
Delivering(s) == s.pc \in {"send", "retry"}

(* C16: the text handed to the Telegram send is a non-empty string and is  *)
(* never the ephemeral status, on every path that reaches the delivery.    *)
C16_NeverSilence ==
    \A h \in Handlers :
        Delivering(hs[h])
            => /\ hs[h].replyText \notin {<< >>, Null, Working}
               /\ \A i \in 1..Len(hs[h].sends) :
                     hs[h].sends[i].text = hs[h].replyText

(* The ceiling was reached with the status text in replyText; the fallback *)
(* is what goes out.                                                       *)
C16_Witness ==
    \E h \in Handlers :
        /\ hs[h].pc = "retry"
        /\ hs[h].lastRes = "tool_calls"
        /\ Len(hs[h].consults) = MAX_TURNS
        /\ hs[h].replyText = Fallback

(* The history holds an exchange whose assistant entry is the apology of   *)
(* a failed backend call.                                                  *)
FailureRecorded(history) ==
    \E i \in 1..Len(history) :
        history[i] \in {AssistantMsg(BrainHurts), AssistantMsg(SystemError)}

(* The run ended in the catch: the crash reply goes out and nothing was    *)
(* pushed.                                                                 *)
FailureDropped(s) ==
    /\ s.pc \in {"save1", "save2", "send", "retry"}
    /\ s.replyText = CrashReply
    /\ ~s.appended

(* C17: failed exchanges get one history treatment: no chat has a failed   *)
(* exchange recorded in its history and another one left out of it.        *)
C17_OneFailurePolicy ==
    \A h \in Handlers :
        ~(FailureDropped(hs[h]) /\ FailureRecorded(hs[h].loaded))

(* C18: generateAIResponse always returns: no consultation ends in an      *)
(* exception before the backend was called.                                *)
C18_GatewayNeverThrows ==
    \A h \in Handlers : hs[h].lastRes # "no_call"

(* C19: when the handling of a message in which clear_memory returned has  *)
(* saved, the stored history holds nothing that was stored before the      *)
(* message: it is empty or the pair of this exchange.                      *)
C19_ClearMemoryClears ==
    \A h \in Handlers :
        (Delivering(hs[h]) /\ hs[h].cleared)
            => kv[hs[h].chatId].value \in {<< >>, OwnPair(hs[h])}

(* C20: a request that is not a POST gets the response OK and leaves the   *)
(* handler as it is when idle (nothing loaded, no consultation, no tool    *)
(* round, no send) and the store as it was.                                *)
C20_NonPostIgnored ==
    /\ [](\A h \in Handlers :
            hs[h].method = "GET"
                => hs[h] = [IdleState EXCEPT !.response = "OK", !.method = "GET"])
    /\ [][\A h \in Handlers :
            (pending'[h] # pending[h] /\ hs'[h].method = "GET")
                => kv' = kv /\ streak' = streak /\ faulted' = faulted]_vars

(* A GET that arrived after an exchange of the chat was stored. *)
C20_Witness ==
    \E h \in Handlers :
        /\ hs[h].method = "GET"
        /\ hs[h].response = "OK"
        /\ Len(kv["c1"].value) = 2
        /\ pending[h]["c1"] = 0

(* C21: every name of TOOLS occurs once, every name of TOOLS has a handler *)
(* in HANDLERS, every key of HANDLERS is a name of TOOLS, and no key is    *)
(* registered by two skills; so a tool call that names an offered tool     *)
(* finds its handler.                                                      *)
C21_RegistryConsistent ==
    /\ \A i, j \in 1..Len(TOOLS) : TOOLS[i] = TOOLS[j] => i = j
    /\ {TOOLS[i] : i \in 1..Len(TOOLS)} = HandlerNames
    /\ \A i, j \in 1..Len(Skills) :
          i # j => SkillHandlers(Skills[i]) \cap SkillHandlers(Skills[j]) = {}
    /\ \A h \in Handlers :
          (hs[h].pc = "tools"
              /\ \E i \in 1..Len(TOOLS) : TOOLS[i] = Head(hs[h].calls).name)
            => /\ HasHandler(Head(hs[h].calls).name)
               /\ Head(hs[h].calls).name
                     \in SkillHandlers(HandlerOwner(Head(hs[h].calls).name))

(* A round is about to run an offered tool of the first and one of the     *)
(* third skill.                                                            *)
C21_Witness ==
    \E h \in Handlers :
        /\ hs[h].pc = "tools"
        /\ Len(hs[h].calls) = 2
        /\ hs[h].calls[1].name = "get_repos"
        /\ hs[h].calls[2].name = "clear_memory"

(* What the iteration for a tool call of that name can record. *)
ToolOutcomes(fnName) ==
    {HandlerText(fnName), ExecutionError(fnName, ErrMessage), NotFound(fnName)}

(* C22: each step of a tool round runs the first tool call not yet run and *)
(* adds its outcome at the end of the results block, so the outcomes stand *)
(* in the order of the tool calls; the round passes its block on to the    *)
(* next consultation (or to the reply) only with the outcome of its last   *)
(* tool call, and a consultation never starts while a tool call of the     *)
(* round is still to run.  (A step that ends in the catch aborts the       *)
(* request: no later handler runs and no consultation follows.)            *)
C22_SequentialTools ==
    /\ [](\A h \in Handlers : hs[h].pc = "consult" => hs[h].calls = << >>)
    /\ [][\A h \in Handlers :
            (hs[h].pc = "tools" /\ hs'[h] # hs[h]) =>
              LET s == hs[h]
                  t == hs'[h]
                  call == Head(s.calls)
              IN  \/ FailureDropped(t)
                  \/ \E r \in ToolOutcomes(call.name) :
                        LET results == s.turnResults \o ResultLine(call.name, r)
                        IN  \/ /\ t.pc = "tools"
                               /\ t.turnResults = results
                               /\ t.calls = Tail(s.calls)
                               /\ t.calls # << >>
                            \/ /\ Tail(s.calls) = << >>
                               /\ \/ t.pc = "consult" /\ t.context.result = results
                                  \/ t.pc = "save1" /\ t.appended]_vars

(* The first of two different tool calls has run, the second is next. *)
C22_Witness ==
    \E h \in Handlers :
        /\ hs[h].pc = "tools"
        /\ Outcomes(hs[h].turnResults) = 1
        /\ hs[h].turnResults[2] = "get_repos"
        /\ Len(hs[h].calls) = 1
        /\ hs[h].calls[1].name = "clear_memory"

(* The sequence sub occurs in s as a block. *)
Contains(s, sub) ==
    \E i \in 0..(Len(s) - Len(sub)) : SubSeq(s, i + 1, i + Len(sub)) = sub

(* The consultation number k of the handler is about to be made. *)
AboutToConsult(s, k) == s.pc = "consult" /\ s.turn = k - 1

(* C23: the prompt of every consultation after the first holds the text of *)
(* the inbound message as it came, once, and is not built on the prompt of *)
(* the round before (it opens with one '[System] Tools executed' header).  *)
C23_ReGrounding ==
    \A h \in Handlers : \A k \in 2..MAX_TURNS :
        AboutToConsult(hs[h], k)
            => /\ Contains(hs[h].currentText, hs[h].text)
               /\ hs[h].currentText[2] = hs[h].text[1]
               /\ \A i \in 3..Len(hs[h].currentText) :
                     hs[h].currentText[i] # hs[h].currentText[1]

C23_Witness ==
    \E h \in Handlers :
        /\ AboutToConsult(hs[h], MAX_TURNS)
        /\ hs[h].text = <<"list my repos">>
        /\ Outcomes(hs[h].currentText) = 2

(* C24: the input of a consultation holds the outcomes of all the rounds   *)
(* before it: when a round hands over to the next consultation, the block  *)
(* of the round before (the context the round ran with) is still part of   *)
(* the new context and of the new prompt.                                  *)
C24_AccumulatedResults ==
    [][\A h \in Handlers :
          (hs[h].pc = "tools" /\ hs'[h].pc = "consult")
            => /\ Contains(hs'[h].context.result, hs[h].context.result)
               /\ Contains(hs'[h].currentText, hs[h].context.result)]_vars

(* C25: no tool handler runs after the MAX_TURNS-th consultation: a tool   *)
(* round follows one of the first MAX_TURNS - 1 consultations only.        *)
C25_FinalTurnTerminal ==
    \A h \in Handlers :
        hs[h].pc = "tools" => Len(hs[h].consults) < MAX_TURNS

(* The step of h from s to t is one in which an exception reaches the      *)
(* catch of the AI branch: the arguments of the next tool call do not      *)
(* parse, or generateAIResponse throws before it calls the backend.        *)
ExceptionEscapes(s, t) ==
    \/ s.pc = "tools" /\ t # s /\ ~JsonParses(Head(s.calls).arguments)
    \/ s.pc = "consult" /\ t # s /\ t.lastRes = "no_call"

(* C26: when an exception reaches the catch, the reply is the crash text,  *)
(* nothing is pushed (the in-memory history is the loaded one), and what   *)
(* the saves then write is the loaded history, trimmed to its last         *)
(* MAX_HISTORY entries.                                                    *)
C26_HistoryUnchangedOnException ==
    [][\A h \in Handlers :
          LET s == hs[h]
              t == hs'[h]
          IN  /\ ExceptionEscapes(s, t)
                    => /\ t.pc = "save1"
                       /\ t.replyText = CrashReply
                       /\ ~t.appended
                       /\ t.history = s.loaded
              /\ (Saved(h) /\ s.replyText = CrashReply)
                    => \/ kv'[s.chatId] = kv[s.chatId] /\ t.storeFailed
                       \/ kv'[s.chatId] =
                             Stored(SliceLast(s.loaded, MAX_HISTORY))]_vars

C26_Witness ==
    \E h \in Handlers :
        /\ hs[h].pc = "send"
        /\ hs[h].replyText = CrashReply
        /\ hs[h].lastRes = "tool_calls"
        /\ Len(hs[h].loaded) = 2
        /\ ~hs[h].storeFailed
        /\ kv[hs[h].chatId] = Stored(hs[h].loaded)

(* C27: the handling of a message that is not /start or /clear, store      *)
(* calls working, leaves the entries it found stored in place: what is     *)
(* stored after its last save is the loaded history, followed by the pair  *)
(* of the exchange if it completed, less what the trim drops from the      *)
(* front.                                                                  *)
C27_SurvivesNonReset ==
    [][\A h \in Handlers :
          (LastSave(h) /\ hs[h].text \notin ResetTexts /\ ~hs'[h].storeFailed)
            => LET s == hs[h]
               IN  kv'[s.chatId] \in
                      {Stored(SliceLast(s.loaded, MAX_HISTORY)),
                       Stored(SliceLast(s.loaded \o OwnPair(s), MAX_HISTORY))}]_vars

(* C28: a message is sent to Telegram at most twice; the first send has    *)
(* parse_mode Markdown; there is a second send only when the first was     *)
(* refused with error_code 400, and it has the chat and the text of the    *)
(* first and no parse_mode; whatever its result, there is no third.        *)
C28_DeliveryRetry ==
    \A h \in Handlers :
        LET d == hs[h].sends
        IN  /\ Len(d) <= 2
            /\ Len(d) >= 1 => d[1].parse_mode = "Markdown"
            /\ Len(d) = 2 =>
                  /\ d[1].result = "error_400"
                  /\ d[2].chat_id = d[1].chat_id
                  /\ d[2].text = d[1].text
                  /\ d[2].parse_mode = "none"
            /\ hs[h].pc = "retry" => Len(d) = 1
            /\ hs[h].pc \notin {"retry", "idle"} => d = << >>

(* The retry was refused too and the run ended. *)
C28_Witness ==
    \E h \in Handlers :
        /\ hs[h].pc = "idle"
        /\ hs[h].response = "OK"
        /\ Len(hs[h].sends) = 2
        /\ hs[h].sends[2].result = "error"

(* C29: the handler goes on from the read of the history with the empty    *)
(* list when the read throws or the key is absent, and with the stored     *)
(* list otherwise; an exchange that completes on an empty loaded history   *)
(* (the read of a stored history failed) replaces what is stored by its    *)
(* own pair; and a save, throwing or not, leads on to the next save and to *)
(* the delivery with the reply unchanged.                                  *)
C29_StoreFailuresTolerated ==
    [][\A h \in Handlers :
          LET s == hs[h]
              t == hs'[h]
          IN  /\ (s.pc = "idle" /\ t.pc # "idle")
                    => /\ t.storeFailed => t.loaded = << >>
                       /\ ~t.storeFailed =>
                             t.loaded = IF kv[t.chatId].present
                                        THEN kv[t.chatId].value ELSE << >>
              /\ (Saved(h) /\ s.appended /\ s.loaded = << >>)
                    => \/ kv'[s.chatId] = kv[s.chatId] /\ t.storeFailed
                       \/ kv'[s.chatId] = Stored(OwnPair(s))
              /\ Saved(h)
                    => /\ t.pc = IF s.pc = "save1" THEN "save2" ELSE "send"
                       /\ t.replyText = s.replyText]_vars

(* The read of a stored history of 8 or 10 entries threw, the exchange     *)
(* completed and its first save has replaced the stored history by the     *)
(* pair.                                                                   *)
C29_Witness ==
    \E h \in Handlers :
        /\ hs[h].pc = "save2"
        /\ hs[h].storeFailed
        /\ hs[h].appended
        /\ hs[h].loaded = << >>
        /\ ~faulted[hs[h].chatId]
        /\ kv[hs[h].chatId] = Stored(OwnPair(hs[h]))

(* The history is user, assistant, user, assistant, ... and ends with an   *)
(* assistant entry.                                                        *)
Alternates(history) ==
    /\ Len(history) % 2 = 0
    /\ \A i \in 1..Len(history) :
          history[i].role = IF i % 2 = 1 THEN "user" ELSE "assistant"

====
